---- MODULE Spec2Model ----
(***************************************************************************)
(* A model of raw2all.py: the bibliography normaliser.  The venue          *)
(* abbreviation resolver (abbr2full), the author name repairer (fix_name), *)
(* the author list abbreviation (shorten_name_list), the entry field       *)
(* selector (process_entry) and the batch driver (raw2all).                *)
(*                                                                         *)
(* Python strings are TLA+ strings; they are taken apart with Len, SubSeq  *)
(* and \o, character by character, as the Python string methods do.        *)
(***************************************************************************)
EXTENDS Integers, Sequences, FiniteSets, TLC

VARIABLES pc, input, idx, new_entries, errored, arg, ret

vars == <<pc, input, idx, new_entries, errored, arg, ret>>

(***************************************************************************)
(* Python string primitives.                                               *)
(***************************************************************************)

\* s[i] as a one-character string (1-based)
CharAt(s, i) == SubSeq(s, i, i)

\* s[i:] with a 0-based Python index i >= 0
SliceFrom(s, i) == SubSeq(s, i + 1, Len(s))

\* s[:n]
SliceTo(s, n) == SubSeq(s, 1, IF n < Len(s) THEN n ELSE Len(s))

\* s.startswith(p)
StartsWith(s, p) == Len(s) >= Len(p) /\ SubSeq(s, 1, Len(p)) = p

\* the 1-based positions at or after from where p occurs in s
Occurrences(s, p, from) ==
    {i \in from..(Len(s) - Len(p) + 1) : SubSeq(s, i, i + Len(p) - 1) = p}

\* s.find(p, from - 1) + 1: the first occurrence at or after from, 0 when none
Find(s, p, from) ==
    LET occ == Occurrences(s, p, from)
    IN  IF occ = {} THEN 0 ELSE CHOOSE i \in occ : \A j \in occ : i <= j

\* p in s
Contains(s, p) == Occurrences(s, p, 1) # {}

\* s.replace(old, new): every non-overlapping occurrence, left to right
RECURSIVE Replace(_, _, _)
Replace(s, old, new) ==
    LET i == Find(s, old, 1)
    IN  IF i = 0 THEN s
        ELSE SubSeq(s, 1, i - 1) \o new
                 \o Replace(SubSeq(s, i + Len(old), Len(s)), old, new)

\* s.split(sep): the list of the pieces between the occurrences of sep
RECURSIVE Split(_, _)
Split(s, sep) ==
    LET i == Find(s, sep, 1)
    IN  IF i = 0 THEN <<s>>
        ELSE <<SubSeq(s, 1, i - 1)>> \o Split(SubSeq(s, i + Len(sep), Len(s)), sep)

\* sep.join(list)
RECURSIVE Join(_, _)
Join(list, sep) ==
    IF Len(list) = 0 THEN ""
    ELSE IF Len(list) = 1 THEN list[1]
    ELSE list[1] \o sep \o Join(Tail(list), sep)

Whitespace == {" ", "\t", "\n", "\r", "\f"}

\* s.strip()
Strip(s) ==
    LET inside == {i \in 1..Len(s) : CharAt(s, i) \notin Whitespace}
    IN  IF inside = {} THEN ""
        ELSE LET lo == CHOOSE i \in inside : \A j \in inside : i <= j
                 hi == CHOOSE i \in inside : \A j \in inside : i >= j
             IN  SubSeq(s, lo, hi)

Digits == {"0", "1", "2", "3", "4", "5", "6", "7", "8", "9"}

Letters ==
    {"a", "b", "c", "d", "e", "f", "g", "h", "i", "j", "k", "l", "m",
     "n", "o", "p", "q", "r", "s", "t", "u", "v", "w", "x", "y", "z",
     "A", "B", "C", "D", "E", "F", "G", "H", "I", "J", "K", "L", "M",
     "N", "O", "P", "Q", "R", "S", "T", "U", "V", "W", "X", "Y", "Z"}

\* the regular expression class \w
WordChars == Letters \cup Digits \cup {"_"}

DigitValue(c) ==
    CASE c = "0" -> 0 [] c = "1" -> 1 [] c = "2" -> 2 [] c = "3" -> 3
      [] c = "4" -> 4 [] c = "5" -> 5 [] c = "6" -> 6 [] c = "7" -> 7
      [] c = "8" -> 8 [] c = "9" -> 9

DigitChar(d) ==
    CASE d = 0 -> "0" [] d = 1 -> "1" [] d = 2 -> "2" [] d = 3 -> "3"
      [] d = 4 -> "4" [] d = 5 -> "5" [] d = 6 -> "6" [] d = 7 -> "7"
      [] d = 8 -> "8" [] d = 9 -> "9"

AllIn(s, class) == \A i \in 1..Len(s) : CharAt(s, i) \in class

\* the value of a string of decimal digits
RECURSIVE ParseDigits(_)
ParseDigits(s) ==
    IF Len(s) = 0 THEN 0
    ELSE 10 * ParseDigits(SubSeq(s, 1, Len(s) - 1)) + DigitValue(CharAt(s, Len(s)))

\* str(n) of a natural number
RECURSIVE NatToStr(_)
NatToStr(n) ==
    IF n < 10 THEN DigitChar(n) ELSE NatToStr(n \div 10) \o DigitChar(n % 10)

\* f'{n}' of an integer
IntToStr(n) == IF n < 0 THEN "-" \o NatToStr(0 - n) ELSE NatToStr(n)

(***************************************************************************)
(* Python values that the code mixes: a bibtexparser Field object, a str   *)
(* and an int.  A Field is never equal to a str (Field.__eq__ wants        *)
(* another Field, and str.__eq__ does not know Field), and int() accepts   *)
(* an int or a str of digits and raises on anything else.                  *)
(***************************************************************************)

Field(key, value) == [type |-> "Field", key |-> key, value |-> value, num |-> 0]

PyStr(s) == [type |-> "str", key |-> "", value |-> s, num |-> 0]

PyInt(n) == [type |-> "int", key |-> "", value |-> "", num |-> n]

\* a == b
PyEq(a, b) == a.type = b.type /\ a.key = b.key /\ a.value = b.value /\ a.num = b.num

\* whether int(v) returns
IntOk(v) ==
    \/ v.type = "int"
    \/ v.type = "str" /\ Len(Strip(v.value)) > 0 /\ AllIn(Strip(v.value), Digits)

\* the exception int(v) raises when it does not return
IntError(v) == IF v.type = "str" THEN "ValueError" ELSE "TypeError"

\* int(v), when it returns
IntValue(v) == IF v.type = "int" THEN v.num ELSE ParseDigits(Strip(v.value))

\* outcomes of a call: a returned value or a raised exception
Return(v) == [status |-> "return", value |-> v, exc |-> "", msg |-> ""]

Raise(exc, msg) == [status |-> "raise", value |-> "", exc |-> exc, msg |-> msg]

(***************************************************************************)
(* The abbreviation table.                                                 *)
(***************************************************************************)

mapping ==
    "*SEM" :> "Conference on Lexical and Computational Semantics"
    @@ "AAAI" :> "Association for the Advancement of Artificial Intelligence"
    @@ "ACL" :> "Annual Meeting of the Association for Computational Linguistics"
    @@ "ANLC" :> "Applied Natural Language Processing"
    @@ "AI" :> "Artificial Intelligence"
    @@ "AISTATS" :> "Artificial Intelligence and Statistics"
    @@ "ASRU" :> "IEEE Automatic Speech Recognition and Understanding Workshop"
    @@ "CAV" :> "Computer Aided Verification"
    @@ "CHI" :> "Conference on Human Factors in Computing Systems"
    @@ "CL" :> "Computational Linguistics"
    @@ "CLCLing" :> "International Conference on Computational Linguistics and Intelligent Text Processing"
    @@ "COLING" :> "International Conference on Computational Linguistics"
    @@ "CoNLL" :> "SIGNLL Conference on Computational Natural Language Learning"
    @@ "CVPR" :> "the IEEE/CVF Conference on Computer Vision and Pattern Recognition"
    @@ "COLT" :> "Conference on Learning Theory"
    @@ "EACL" :> "Conference of the European Chapter of the Association for Computational Linguistics"
    @@ "ECCV" :> "European Conference on Computer Vision"
    @@ "EMNLP" :> "Conference on Empirical Methods in Natural Language Processing"
    @@ "FOCS" :> "Foundations of Computer Science"
    @@ "HLT" :> "Human Language Technology"
    @@ "ICASSP" :> "International Conference on Acoustics, Speech, and Signal Processing"
    @@ "ICCV" :> "IEEE International Conference on Computer Vision"
    @@ "ICIPS" :> "IEEE International Conference on Intelligent Processing Systems"
    @@ "ICLR" :> "International Conference on Learning Representations"
    @@ "ICML" :> "International Conference on Machine Learning"
    @@ "ICRA" :> "International Conference on Robotics and Automation"
    @@ "ICSE" :> "International Conference on Software Engineering"
    @@ "ICTAI" :> "IEEE International Conference on Tools with Artificial Intelligence"
    @@ "IJCAI" :> "International Joint Conference on Artificial Intelligence"
    @@ "IJCNLP" :> "International Joint Conference on Natural Language Processing"
    @@ "ILSVRC" :> "ImageNet Large Scale Visual Recognition Challenge"
    @@ "INLG" :> "International Natural Language Generation Conference"
    @@ "IROS" :> "International Conference on Intelligent Robots and Systems"
    @@ "ISER" :> "International Symposium on Experimental Robotics"
    @@ "IWCS" :> "International Conference on Computational Semantics"
    @@ "IWSLT" :> "International Conference on Spoken Language Translation"
    @@ "JAIR" :> "Journal of Artificial Intelligence Research"
    @@ "JASA" :> "Journal of the American Statistical Association"
    @@ "JMLR" :> "Journal of Machine Learning Research"
    @@ "KDD" :> "International Conference on Knowledge Discovery and Data Mining"
    @@ "LREC" :> "Language Resources and Evaluation Conference"
    @@ "MLSLP" :> "Symposium on Machine Learning in Speech and Language Processing"
    @@ "NAACL" :> "Conference of the North American Chapter of the Association for Computational Linguistics"
    @@ "NAACL25" :> "Annual Conference of the Nations of the Americas Chapter of the Association for Computational Linguistics"
    @@ "NeurIPS" :> "Conference on Neural Information Processing Systems"
    @@ "NCB" :> "Nature Cell Biology"
    @@ "NODALIDA" :> "Nordic Conference on Computational Linguistics"
    @@ "OSDI" :> "Operating Systems Design and Implementation"
    @@ "PAMI" :> "IEEE Transactions on Pattern Analysis and Machine Intelligence"
    @@ "PNAS" :> "Proceedings of the National Academy of Sciences of the United States of America"
    @@ "RECSYS" :> "ACM Conference on Recommender Systems"
    @@ "SALT" :> "Semantics and Linguistic Theory"
    @@ "SIGIR" :> "ACM Special Interest Group on Information Retrieval"
    @@ "SODA" :> "Symposium on Discrete Algorithms"
    @@ "SOSP" :> "Symposium on Operating Systems Principles"
    @@ "STOC" :> "Symposium on Theory of Computing"
    @@ "TACL" :> "Transactions of the Association for Computational Linguistics"
    @@ "TFS" :> "IEEE Transaction on Fuzzy Systems"
    @@ "TNN" :> "IEEE Transaction on Neural Networks"
    @@ "TOIS" :> "ACM Transactions on Information Systems"
    @@ "TSP" :> "IEEE Transaction on Signal Processing"
    @@ "UAI" :> "Uncertainty in Artificial Intelligence"
    @@ "UIST" :> "User Interface Software and Technology"
    @@ "WSDM" :> "Web Search and Data Mining"
    @@ "WMT" :> "Conference on Machine Translation"
    @@ "WWW" :> "World Wide Web"

(***************************************************************************)
(* abbr2full: the abbreviation resolver.                                   *)
(***************************************************************************)

\* the loop over parts with NAACL renamed only after 2025
RECURSIVE JoinNamesAfter2025(_, _)
JoinNamesAfter2025(parts, year) ==
    IF Len(parts) = 0 THEN ""
    ELSE LET part == IF year > 2025 /\ parts[1] = "NAACL" THEN "NAACL25"
                     ELSE parts[1]
         IN  " and " \o mapping[part] \o JoinNamesAfter2025(Tail(parts), year)

\* the loop over parts: ret += ' and ' + mapping[part], NAACL renamed from 2025 on
RECURSIVE JoinNames(_, _)
JoinNames(parts, year) ==
    IF Len(parts) = 0 THEN ""
    ELSE LET part == IF year >= 2025 /\ parts[1] = "NAACL" THEN "NAACL25"
                     ELSE parts[1]
         IN  " and " \o mapping[part] \o JoinNames(Tail(parts), year)

\* abbr2full with the test of the first part replaced by a test of the last
abbr2fullLastPart(abbr0, year) ==
    LET abbr == Replace(Replace(abbr0, "{", ""), "}", "")
        parts == Split(abbr, "-")
        is_abbr == [i \in 1..Len(parts) |-> parts[i] \in DOMAIN mapping]
    IN  IF \A i \in 1..Len(parts) : is_abbr[i]
        THEN IF ~IntOk(year) THEN Raise(IntError(year), "")
             ELSE LET joined == JoinNames(parts, IntValue(year))
                      full == SliceFrom(joined, 5) \o " (" \o abbr \o ")"
                  IN  Return(Strip(Replace(full, "  ", " ")))
        ELSE IF ~is_abbr[Len(parts)]
        THEN Return(Strip(Replace(abbr, "  ", " ")))
        ELSE Raise("Exception", "Unrecognized abbreviation: " \o abbr)

abbr2full(abbr0, year) ==
    LET abbr == Replace(Replace(abbr0, "{", ""), "}", "")
        parts == Split(abbr, "-")
        is_abbr == [i \in 1..Len(parts) |-> parts[i] \in DOMAIN mapping]
    IN  IF \A i \in 1..Len(parts) : is_abbr[i]
        THEN \* int(year) is evaluated in the first iteration of the loop
             IF ~IntOk(year) THEN Raise(IntError(year), "")
             ELSE LET joined == JoinNames(parts, IntValue(year))
                      full == SliceFrom(joined, 5) \o " (" \o abbr \o ")"
                  IN  Return(Strip(Replace(full, "  ", " ")))
        ELSE IF ~is_abbr[1]
        THEN Return(Strip(Replace(abbr, "  ", " ")))
        ELSE Raise("Exception", "Unrecognized abbreviation: " \o abbr)

(***************************************************************************)
(* fix_name: the author name repairer.                                     *)
(***************************************************************************)

\* the class [\w. ] of prefix_pattern
NameChars == WordChars \cup {".", " "}

\* whether the literal lit stands in s at position i
LiteralAt(s, i, lit) ==
    i + Len(lit) - 1 <= Len(s) /\ SubSeq(s, i, i + Len(lit) - 1) = lit

\* the position after the longest run of class characters starting at i
RunEnd(s, i, class) ==
    LET stops == {j \in i..Len(s) : CharAt(s, j) \notin class}
    IN  IF stops = {} THEN Len(s) + 1
        ELSE CHOOSE j \in stops : \A k \in stops : j <= k

NoMatch == [start |-> 0, end |-> 0, groups |-> <<"", "", "">>]

\* prefix_pattern matched at position i of s.  No character of a group can
\* start the literal that follows it, so each group is its longest run.
MatchAt(s, i) ==
    IF ~LiteralAt(s, i, "family=") THEN NoMatch
    ELSE
    LET p1 == i + 7
        e1 == RunEnd(s, p1, NameChars)
    IN  IF e1 = p1 \/ ~LiteralAt(s, e1, ", given=") THEN NoMatch
        ELSE
        LET p2 == e1 + 8
            e2 == RunEnd(s, p2, NameChars)
        IN  IF e2 = p2 \/ ~LiteralAt(s, e2, ", prefix=") THEN NoMatch
            ELSE
            LET p3 == e2 + 9
                e3 == RunEnd(s, p3, NameChars)
            IN  IF e3 = p3 \/ ~LiteralAt(s, e3, ", useprefix=") THEN NoMatch
                ELSE
                LET p4 == e3 + 12
                    groups == <<SubSeq(s, p1, e1 - 1), SubSeq(s, p2, e2 - 1),
                                SubSeq(s, p3, e3 - 1)>>
                IN  IF LiteralAt(s, p4, "true")
                    THEN [start |-> i, end |-> p4 + 3, groups |-> groups]
                    ELSE IF LiteralAt(s, p4, "false")
                    THEN [start |-> i, end |-> p4 + 4, groups |-> groups]
                    ELSE NoMatch

\* re.finditer(prefix_pattern, s): the matches from position from on, left to
\* right, each search resuming after the previous match
RECURSIVE FindIter(_, _)
FindIter(s, from) ==
    LET starts == {i \in Occurrences(s, "family=", from) : MatchAt(s, i).start # 0}
    IN  IF starts = {} THEN <<>>
        ELSE LET i == CHOOSE j \in starts : \A k \in starts : j <= k
                 m == MatchAt(s, i)
             IN  <<m>> \o FindIter(s, m.end + 1)

\* f'{pieces[2]} {pieces[0]}, {pieces[1]}'
NewName(m) == m.groups[3] \o " " \o m.groups[1] \o ", " \o m.groups[2]

\* the body of the loop over the matches of the field as it was passed in
RECURSIVE FixLoop(_, _, _)
FixLoop(authors, matches, string) ==
    IF Len(matches) = 0 THEN Return(authors)
    ELSE LET match == matches[1]
             name == SubSeq(string, match.start, match.end)
         IN  IF ~Contains(authors, name) THEN Raise("AssertionError", name)
             ELSE FixLoop(Replace(authors, name, NewName(match)), Tail(matches), string)

fix_name(authors) == FixLoop(authors, FindIter(authors, 1), authors)

(***************************************************************************)
(* shorten_name_list: the author list abbreviation.                        *)
(***************************************************************************)

\* the length from which an author field is abbreviated
LongField == 1024

n_preserve == 10

shorten_name_list(authors0) ==
    IF Len(authors0) < LongField THEN authors0
    ELSE LET parts == Split(authors0, " and ")
             authors == [i \in 1..Len(parts) |-> Strip(parts[i])]
             n_remove == Len(authors) - n_preserve
             kept == SubSeq(authors, 1, IF Len(authors) < n_preserve
                                        THEN Len(authors) ELSE n_preserve)
         IN  Join(Append(kept, IntToStr(n_remove) \o " additional authors"), " and ")

(***************************************************************************)
(* process_entry: the entry field selector.  An entry is a record of its   *)
(* entry_type, its key and its fields, a function from the names of the    *)
(* fields it has to their values; fields_dict[k] is the Field object of k. *)
(***************************************************************************)

Entry(entry_type, key, fields) ==
    [entry_type |-> entry_type, key |-> key, fields |-> fields]

None == Entry("None", "", <<>>)

IsNone(e) == e.entry_type = "None"

NoUrl == [has |-> FALSE, value |-> ""]

\* \d+(v\d+)?$ on the whole of s
DigitsVersion(s) ==
    LET d == RunEnd(s, 1, Digits)
    IN  /\ d > 1
        /\ \/ d = Len(s) + 1
           \/ /\ CharAt(s, d) = "v"
              /\ d + 1 <= Len(s)
              /\ AllIn(SubSeq(s, d + 1, Len(s)), Digits)

\* re.findall finds one of arxiv_patterns in s
ArxivPattern(s) ==
    \/ LET i == Find(s, "/", 1)
       IN  /\ i > 1
           /\ AllIn(SubSeq(s, 1, i - 1), WordChars)
           /\ DigitsVersion(SubSeq(s, i + 1, Len(s)))
    \/ LET d == RunEnd(s, 1, Digits)
       IN  /\ d > 1
           /\ d <= Len(s)
           /\ CharAt(s, d) = "."
           /\ DigitsVersion(SubSeq(s, d + 1, Len(s)))

\* fields.get(k, default)
FieldsGet(fields, k, default) ==
    IF k \in DOMAIN fields THEN Field(k, fields[k]) ELSE PyStr(default)

\* the url chosen with an existing url field preferred to the doi
SelectUrlExistingFirst(fields) ==
    IF "url" \in DOMAIN fields
    THEN LET url == Replace(fields["url"], "http://", "https://")
         IN  IF StartsWith(url, "http") THEN [has |-> TRUE, value |-> url] ELSE NoUrl
    ELSE IF "doi" \in DOMAIN fields
    THEN [has |-> TRUE, value |-> "https://doi.org/" \o fields["doi"]]
    ELSE NoUrl

\* the choice of new['url']: whether the key is set, and its value
SelectUrl(fields) ==
    IF "doi" \in DOMAIN fields
    THEN [has |-> TRUE, value |-> "https://doi.org/" \o fields["doi"]]
    ELSE IF "url" \in DOMAIN fields
    THEN LET url == Replace(fields["url"], "http://", "https://")
         IN  IF StartsWith(url, "http") THEN [has |-> TRUE, value |-> url] ELSE NoUrl
    ELSE IF /\ PyEq(FieldsGet(fields, "eprinttype", ""), PyStr("arxiv"))
            /\ "eprint" \in DOMAIN fields
    THEN IF ArxivPattern(fields["eprint"])
         THEN [has |-> TRUE, value |-> "https://arxiv.org/abs/" \o fields["eprint"]]
         ELSE NoUrl
    ELSE NoUrl

\* to_keep of an entry type
ToKeep(entry_type) ==
    CASE entry_type = "article" -> {"volume", "issue", "publisher", "pages"}
      [] entry_type = "inproceedings" -> {}
      [] entry_type = "incollection" -> {"booktitle", "pages", "publisher"}
      [] entry_type = "thesis" -> {"institution", "type"}
      [] OTHER -> {}

common_keeps == {"year", "title"}

\* the entry type of the result
TypeOut(entry_type) ==
    IF entry_type \in {"article", "inproceedings", "incollection", "thesis"}
    THEN entry_type ELSE "misc"

\* the venue derived for an entry type: the key of new it sets and the call
\* that computes it
Venue(entry_type, fields, year) ==
    CASE entry_type = "article" ->
            IF "journaltitle" \notin DOMAIN fields THEN Raise("KeyError", "journaltitle")
            ELSE abbr2full(fields["journaltitle"], year)
      [] entry_type = "inproceedings" ->
            IF "booktitle" \notin DOMAIN fields THEN Raise("KeyError", "booktitle")
            ELSE LET full == abbr2full(fields["booktitle"], year)
                 IN  IF full.status = "raise" THEN full ELSE Return(Strip(full.value))
      [] OTHER -> Return("")

VenueKey(entry_type) ==
    CASE entry_type = "article" -> {"journal"}
      [] entry_type = "inproceedings" -> {"booktitle"}
      [] OTHER -> {}

\* the dictionary new at the return: the fields copied by the last loop over
\* the values set before it
NewFields(entry_type, fields, year, url, author, venue) ==
    LET copied == [k \in DOMAIN fields \cap (common_keeps \cup ToKeep(entry_type))
                     |-> PyStr(fields[k])]
        issue == IF entry_type = "article" /\ "number" \in DOMAIN fields
                 THEN "issue" :> PyStr(fields["number"]) ELSE <<>>
        derived == [k \in VenueKey(entry_type) |-> PyStr(venue)]
        urlset == IF url.has THEN "url" :> PyStr(url.value) ELSE <<>>
    IN  copied @@ issue @@ derived @@ ("author" :> PyStr(author)) @@ urlset
            @@ ("year" :> year)

process_entry(entry1) ==
    LET fields == entry1.fields
    IN  IF "author" \notin DOMAIN fields \/ PyEq(Field("author", fields["author"]), PyStr(""))
        THEN Return(None)
        ELSE IF "keywords" \in DOMAIN fields /\ Contains(fields["keywords"], "nobib")
        THEN Return(None)
        ELSE IF ~("date" \in DOMAIN fields /\ "year" \notin DOMAIN fields)
                /\ "year" \notin DOMAIN fields
        THEN Raise("KeyError", "year")
        ELSE
        LET year == IF "date" \in DOMAIN fields /\ "year" \notin DOMAIN fields
                    THEN PyStr(SliceTo(fields["date"], 4))
                    ELSE Field("year", fields["year"])
            url == SelectUrl(fields)
            fixed == fix_name(fields["author"])
        IN  IF fixed.status = "raise" THEN fixed
            ELSE
            LET author == shorten_name_list(fixed.value)
                venue == Venue(entry1.entry_type, fields, year)
            IN  IF venue.status = "raise" THEN venue
                ELSE Return(Entry(TypeOut(entry1.entry_type), entry1.key,
                                  NewFields(entry1.entry_type, fields, year, url,
                                            author, venue.value)))

(***************************************************************************)
(* Calls of abbr2full on bounded inputs.                                   *)
(***************************************************************************)

\* the largest number of hyphen-joined segments of a composed venue code
MaxParts == 3

\* segments of the composed venue codes: known codes, a braced known code,
\* an unknown code and a full venue name with stray blanks
SegmentPool == {"ACL", "NAACL", "{EMNLP}", "FOO", " Intl  Workshop "}

RECURSIVE Codes(_)
Codes(n) ==
    IF n = 1 THEN SegmentPool
    ELSE {c \o "-" \o s : c \in Codes(n - 1), s \in SegmentPool}

AbbrInputs ==
    DOMAIN mapping \cup {"", "{ACL}", "{NAACL-HLT}"}
        \cup UNION {Codes(n) : n \in 1..MaxParts}

YearInputs ==
    {PyInt(2024), PyInt(2025), PyStr("2020"), PyStr("2025"), PyStr("n.d."),
     Field("year", "2020")}

NoArg == [abbr |-> "", year |-> PyInt(0), authors |-> ""]

NoRet == Return("")

InitAbbr ==
    /\ pc = "abbr2full"
    /\ arg \in {[abbr |-> a, year |-> y, authors |-> ""] : a \in AbbrInputs, y \in YearInputs}
    /\ ret = NoRet
    /\ input = <<>>
    /\ idx = 1
    /\ new_entries = <<>>
    /\ errored = <<>>

CallAbbr2full ==
    /\ pc = "abbr2full"
    /\ ret' = abbr2full(arg.abbr, arg.year)
    /\ pc' = "done"
    /\ UNCHANGED <<input, idx, new_entries, errored, arg>>

NextAbbr == CallAbbr2full

SpecAbbr == InitAbbr /\ [][NextAbbr]_vars

\* the code as abbr2full splits it: braces removed, cut at the hyphens
CodeOf(abbr) == Replace(Replace(abbr, "{", ""), "}", "")

PartsOf(abbr) == Split(CodeOf(abbr), "-")

Known(part) == part \in DOMAIN mapping

NoStrayBlanks(s) ==
    /\ ~Contains(s, "  ")
    /\ Len(s) > 0 => CharAt(s, 1) \notin Whitespace /\ CharAt(s, Len(s)) \notin Whitespace

\* C9 as stated: for every venue code made of N >= 1 hyphen-joined segments
\* that are all in the table, abbr2full returns the table's full names of the
\* segments in order joined by " and ", then the code in parentheses, with no
\* doubled spaces and no leading or trailing whitespace.
C9_AsStated ==
    (pc = "done" /\ IntOk(arg.year)
        /\ \A i \in 1..Len(Split(arg.abbr, "-")) : Known(Split(arg.abbr, "-")[i]))
    => LET parts == Split(arg.abbr, "-")
           names == [i \in 1..Len(parts) |-> mapping[parts[i]]]
       IN  /\ ret.status = "return"
           /\ ret.value = Join(names, " and ") \o " (" \o arg.abbr \o ")"
           /\ NoStrayBlanks(ret.value)

\* the full name abbr2full gives a known segment in a given year
NameInYear(part, year) ==
    IF part = "NAACL" /\ year >= 2025 THEN mapping["NAACL25"] ELSE mapping[part]

\* C9 amended: for every venue code whose hyphen-separated segments (braces
\* removed) are all in the table, and every year int() accepts, abbr2full
\* returns the segments' full names in order joined by " and " -- a NAACL
\* segment takes the name of the table's NAACL25 entry when the year is 2025
\* or later -- then the code (braces removed) in parentheses, with no doubled
\* spaces and no leading or trailing whitespace.
C9_ResolveKnown ==
    (pc = "done" /\ IntOk(arg.year)
        /\ \A i \in 1..Len(PartsOf(arg.abbr)) : Known(PartsOf(arg.abbr)[i]))
    => LET parts == PartsOf(arg.abbr)
           names == [i \in 1..Len(parts) |-> NameInYear(parts[i], IntValue(arg.year))]
       IN  /\ ret.status = "return"
           /\ ret.value = Join(names, " and ") \o " (" \o CodeOf(arg.abbr) \o ")"
           /\ NoStrayBlanks(ret.value)

\* a joint venue with a NAACL segment resolved for 2025
C9_Witness ==
    /\ pc = "done"
    /\ arg.abbr = "ACL-NAACL-{EMNLP}"
    /\ arg.year = PyStr("2025")
    /\ ret.status = "return"

\* C10: when the first segment of the code is in the table and a later one
\* is not, abbr2full raises the unrecognized-abbreviation exception carrying
\* the code and returns nothing; when the first segment is not in the table
\* it returns, whatever the later segments are.
C10_UnrecognizedAbbreviation ==
    pc = "done"
    => LET parts == PartsOf(arg.abbr)
       IN  /\ (Known(parts[1]) /\ \E i \in 2..Len(parts) : ~Known(parts[i]))
                => /\ ret.status = "raise"
                   /\ ret.exc = "Exception"
                   /\ ret.msg = "Unrecognized abbreviation: " \o CodeOf(arg.abbr)
           /\ ~Known(parts[1]) => ret.status = "return"

\* a known first segment with an unknown later one, and the converse
C10_Witness ==
    /\ pc = "done"
    /\ \/ arg.abbr = "ACL-NAACL-FOO" /\ ret.status = "raise"
       \/ arg.abbr = "FOO-ACL" /\ ret.status = "return" /\ ret.value = "FOO-ACL"

(***************************************************************************)
(* Calls of fix_name on bounded inputs.                                    *)
(***************************************************************************)

\* the largest number of names of an author field passed to fix_name
MaxAuthors == 3

\* a plain name, two names with the prefix artifact, and an artifact cut short
AuthorPool ==
    {"Smith, John",
     "family=Gogh, given=V., prefix=van, useprefix=true",
     "family=Beethoven, given=L. van, prefix=van, useprefix=false",
     "family=Gama, given=V., prefix=da"}

RECURSIVE AuthorLists(_)
AuthorLists(n) ==
    IF n = 1 THEN AuthorPool
    ELSE {a \o " and " \o b : a \in AuthorLists(n - 1), b \in AuthorPool}

FixInputs == {""} \cup UNION {AuthorLists(n) : n \in 1..MaxAuthors}

InitFix ==
    /\ pc = "fix_name"
    /\ arg \in {[abbr |-> "", year |-> PyInt(0), authors |-> a] : a \in FixInputs}
    /\ ret = NoRet
    /\ input = <<>>
    /\ idx = 1
    /\ new_entries = <<>>
    /\ errored = <<>>

CallFixName ==
    /\ pc = "fix_name"
    /\ ret' = fix_name(arg.authors)
    /\ pc' = "done"
    /\ UNCHANGED <<input, idx, new_entries, errored, arg>>

NextFix == CallFixName

SpecFix == InitFix /\ [][NextFix]_vars

\* s with the text of each match, taken by position, replaced by its new name
RECURSIVE Rewritten(_, _, _)
Rewritten(s, matches, from) ==
    IF Len(matches) = 0 THEN SubSeq(s, from, Len(s))
    ELSE SubSeq(s, from, matches[1].start - 1) \o NewName(matches[1])
             \o Rewritten(s, Tail(matches), matches[1].end + 1)

\* C7: fix_name never fails: for every author field, also one with several
\* matches or with the same matched text more than once, it returns the field
\* with every match replaced by "P F, G" and all other text unchanged.
C7_RepairNeverFails ==
    pc = "done"
    => /\ ret.status = "return"
       /\ ret.value = Rewritten(arg.authors, FindIter(arg.authors, 1), 1)

(***************************************************************************)
(* Calls of shorten_name_list on bounded inputs.                           *)
(***************************************************************************)

\* the largest number of names of an author field passed to shorten_name_list
MaxNames == 12

\* the lengths of the names
NameLengths == {4, 90, 120, 300}

\* the separators between the names: the plain one and one with stray blanks
Separators == {" and ", "  and  "}

\* n times the character x
RECURSIVE Filler(_)
Filler(n) ==
    IF n <= 0 THEN ""
    ELSE IF n % 2 = 0 THEN LET half == Filler(n \div 2) IN half \o half
    ELSE "x" \o Filler(n - 1)

\* s filled up to n characters
Padded(s, n) == s \o Filler(n - Len(s))

\* the i-th name, of n characters
NameOf(i, n) == Padded("N" \o IntToStr(i) \o ",", n)

ShortenInputs ==
    {Join([i \in 1..k |-> NameOf(i, n)], sep) :
        k \in 1..MaxNames, n \in NameLengths, sep \in Separators}

InitShorten ==
    /\ pc = "shorten_name_list"
    /\ arg \in {[abbr |-> "", year |-> PyInt(0), authors |-> a] : a \in ShortenInputs}
    /\ ret = NoRet
    /\ input = <<>>
    /\ idx = 1
    /\ new_entries = <<>>
    /\ errored = <<>>

CallShortenNameList ==
    /\ pc = "shorten_name_list"
    /\ ret' = Return(shorten_name_list(arg.authors))
    /\ pc' = "done"
    /\ UNCHANGED <<input, idx, new_entries, errored, arg>>

NextShorten == CallShortenNameList

SpecShorten == InitShorten /\ [][NextShorten]_vars

\* C8: shorten_name_list returns a field shorter than 1024 characters
\* unchanged; of a field of 1024 characters or more it returns exactly 11
\* components separated by " and ": the first 10 names, trimmed, and
\* "<n> additional authors" with n the number of names removed.
C8_ShortenElevenComponents ==
    pc = "done"
    => LET names == Split(arg.authors, " and ")
           comps == Split(ret.value, " and ")
       IN  /\ Len(arg.authors) < 1024 => ret.value = arg.authors
           /\ Len(arg.authors) >= 1024
                => /\ Len(comps) = 11
                   /\ \A i \in 1..10 : comps[i] = Strip(names[i])
                   /\ comps[11] = IntToStr(Len(names) - 10) \o " additional authors"


(***************************************************************************)
(* raw2all: the batch driver.  input is the list of the entries parsed     *)
(* from raw.bib, idx the position of the loop in it, ret the outcome of    *)
(* the last call of process_entry.                                         *)
(***************************************************************************)

\* the largest number of entries of an input of several entries
MaxRecords == 3

Absent == "<absent>"

\* a field of an entry under construction: none when the value is Absent
Opt(k, v) == IF v = Absent THEN <<>> ELSE k :> v

\* the fields an entry has besides those its result is derived from
Extras ==
    ("number" :> "3") @@ ("volume" :> "12") @@ ("issue" :> "2") @@ ("pages" :> "1--10")
        @@ ("publisher" :> "ACM") @@ ("institution" :> "JHU") @@ ("type" :> "phdthesis")
        @@ ("abstract" :> "We study.")

EntryTypes == {"article", "inproceedings", "incollection", "thesis", "book"}

\* year and date: both, either, neither
YearDates == {<<"2020", Absent>>, <<Absent, "2025-05-01">>, <<"2024", "2024-07">>,
              <<Absent, Absent>>}

PlainAuthor == "Smith, John"

PrefixAuthor == "Smith, John and family=Gogh, given=V., prefix=van, useprefix=true"

TwicePrefixAuthor ==
    "family=Gogh, given=V., prefix=van, useprefix=true and "
        \o "family=Gogh, given=V., prefix=van, useprefix=true"

ManyAuthors == Join([i \in 1..12 |-> NameOf(i, 90)], " and ")

\* entries that differ in the fields the url is chosen from
UrlTemplates ==
    {[entry_type |-> t,
      fields |-> ("author" :> PlainAuthor) @@ ("title" :> "A Paper")
                    @@ Opt("year", yd[1]) @@ Opt("date", yd[2])
                    @@ Opt("doi", doi) @@ Opt("url", url)
                    @@ Opt("eprinttype", et) @@ Opt("eprint", ep)] :
        t \in {"book", "thesis"},
        yd \in {<<"2020", Absent>>, <<Absent, "2025-05-01">>},
        doi \in {Absent, "10.1/x"},
        url \in {Absent, "http://example.com/paper", "https://example.com/paper",
                 "ftp://example.com/paper", "https://archive.org/http://example.com"},
        et \in {Absent, "arxiv", "hal"},
        ep \in {Absent, "2001.00001v2", "cs/0001001", "arXiv:2001.00001"}}

\* entries that differ in the fields the filter reads
FilterTemplates ==
    {[entry_type |-> t,
      fields |-> Opt("author", a) @@ Opt("keywords", kw) @@ ("title" :> "A Paper")
                    @@ Opt("year", yd[1]) @@ Opt("date", yd[2])
                    @@ ("booktitle" :> "ACL") @@ ("journaltitle" :> "TACL")
                    @@ ("eprinttype" :> "arxiv") @@ ("eprint" :> "2001.00001")] :
        t \in EntryTypes,
        a \in {Absent, "", PlainAuthor},
        kw \in {Absent, "parsing, nobib", "parsing"},
        yd \in YearDates}

\* entries that differ in type, year, venue, author and kept fields
VenueTemplates ==
    {[entry_type |-> t,
      fields |-> ("author" :> a) @@ Opt("title", title)
                    @@ Opt("year", yd[1]) @@ Opt("date", yd[2])
                    @@ Opt("booktitle", bt) @@ Opt("journaltitle", jt)
                    @@ (IF extras THEN Extras ELSE <<>>)] :
        t \in EntryTypes,
        a \in {PlainAuthor, PrefixAuthor, TwicePrefixAuthor, ManyAuthors},
        title \in {Absent, "A Paper"},
        yd \in YearDates,
        bt \in {Absent, "ACL", "NAACL-HLT", "ACL-FOO", "Some Workshop"},
        jt \in {Absent, "TACL", "Some Journal"},
        extras \in BOOLEAN}

\* entries of the inputs of several entries: two that are transformed, two
\* that are filtered, two whose transformation raises
CoreTemplates ==
    {[entry_type |-> "inproceedings",
      fields |-> ("author" :> PlainAuthor) @@ ("title" :> "A Paper")
                    @@ ("date" :> "2020-05-01") @@ ("booktitle" :> "ACL")],
     [entry_type |-> "book",
      fields |-> ("author" :> PrefixAuthor) @@ ("title" :> "A Book")
                    @@ ("year" :> "2020") @@ ("doi" :> "10.1/x")],
     [entry_type |-> "book",
      fields |-> ("title" :> "Proceedings") @@ ("year" :> "2020")],
     [entry_type |-> "article",
      fields |-> ("author" :> PlainAuthor) @@ ("keywords" :> "nobib")
                    @@ ("year" :> "2020") @@ ("journaltitle" :> "TACL")],
     [entry_type |-> "inproceedings",
      fields |-> ("author" :> PlainAuthor) @@ ("title" :> "A Paper")
                    @@ ("date" :> "2020-05-01") @@ ("booktitle" :> "ACL-FOO")],
     [entry_type |-> "article",
      fields |-> ("author" :> PlainAuthor) @@ ("title" :> "A Paper")
                    @@ ("date" :> "2020-05-01")]}

RECURSIVE TemplateLists(_)
TemplateLists(n) ==
    IF n = 0 THEN {<<>>}
    ELSE {Append(l, t) : l \in TemplateLists(n - 1), t \in CoreTemplates}

\* the parser gives every entry of a library a key of its own
KeyOf(i) == "key" \o IntToStr(i)

Keyed(templates) ==
    [i \in 1..Len(templates) |->
        Entry(templates[i].entry_type, KeyOf(i), templates[i].fields)]

Init ==
    /\ pc = "loop"
    /\ \/ input \in {Keyed(<<t>>) : t \in UrlTemplates}
       \/ input \in {Keyed(<<t>>) : t \in FilterTemplates}
       \/ input \in {Keyed(<<t>>) : t \in VenueTemplates}
       \/ input \in {Keyed(l) : l \in UNION {TemplateLists(n) : n \in 0..MaxRecords}}
    /\ idx = 1
    /\ new_entries = <<>>
    /\ errored = <<>>
    /\ arg = NoArg
    /\ ret = NoRet

\* processed after the try statement: None when process_entry raised
Processed(outcome) == IF outcome.status = "raise" THEN None ELSE outcome.value

\* one iteration of the loop with the exception left to end the run
StepAbort ==
    /\ pc = "loop"
    /\ idx <= Len(input)
    /\ ret' = process_entry(input[idx])
    /\ errored' = errored
    /\ new_entries' = IF ~IsNone(Processed(ret'))
                      THEN Append(new_entries, Processed(ret')) ELSE new_entries
    /\ pc' = IF ret'.status = "raise" THEN "done" ELSE pc
    /\ idx' = IF ret'.status = "raise" THEN idx ELSE idx + 1
    /\ UNCHANGED <<input, arg>>

\* one iteration of the loop with the result put in front of the list
StepPrepend ==
    /\ pc = "loop"
    /\ idx <= Len(input)
    /\ ret' = process_entry(input[idx])
    /\ errored' = IF ret'.status = "raise"
                  THEN Append(errored, input[idx].key) ELSE errored
    /\ new_entries' = IF ~IsNone(Processed(ret'))
                      THEN <<Processed(ret')>> \o new_entries ELSE new_entries
    /\ idx' = idx + 1
    /\ UNCHANGED <<pc, input, arg>>

\* one iteration of the loop over the entries: the call inside the try
\* statement, the key of an entry that raised appended to errored, a result
\* that is not None appended to new_entries
Step ==
    /\ pc = "loop"
    /\ idx <= Len(input)
    /\ ret' = process_entry(input[idx])
    /\ errored' = IF ret'.status = "raise"
                  THEN Append(errored, input[idx].key) ELSE errored
    /\ new_entries' = IF ~IsNone(Processed(ret'))
                      THEN Append(new_entries, Processed(ret')) ELSE new_entries
    /\ idx' = idx + 1
    /\ UNCHANGED <<pc, input, arg>>

\* after the loop: the errored keys are printed and ref.bib is written
Finish ==
    /\ pc = "loop"
    /\ idx > Len(input)
    /\ pc' = "done"
    /\ UNCHANGED <<input, idx, new_entries, errored, arg, ret>>

Next == Step \/ Finish

Spec == Init /\ [][Next]_vars

(***************************************************************************)
(* Properties of the batch driver and of process_entry under it.           *)
(***************************************************************************)

\* the positions of new_entries that hold an entry of a key
EntriesOf(key) == {j \in 1..Len(new_entries) : new_entries[j].key = key}

InErrored(key) == \E j \in 1..Len(errored) : errored[j] = key

\* the position in input of the entry of a key
PositionOf(key) == CHOOSE i \in 1..Len(input) : input[i].key = key



\* C1: failure isolation.  When the transformation of an entry raises, its
\* key is put in errored, nothing is emitted for it, and the run goes on with
\* the entries that remain; the run ends only past the last entry; and a key
\* is in errored only if the transformation of its entry raised.
C1_FailureIsolation ==
    /\ \A i \in 1..Len(input) :
          LET key == input[i].key
          IN  IF i < idx
              THEN LET raised == process_entry(input[i]).status = "raise"
                   IN  /\ raised => InErrored(key) /\ EntriesOf(key) = {}
                       /\ InErrored(key) => raised
              ELSE ~InErrored(key) /\ EntriesOf(key) = {}
    /\ \A j, k \in 1..Len(errored) : j # k => errored[j] # errored[k]
    /\ idx <= Len(input) + 1
    /\ pc = "done" => idx = Len(input) + 1

\* a finished run of three entries, the first raised, the last emitted
C1_Witness ==
    /\ pc = "done"
    /\ Len(input) = 3
    /\ errored = <<"key1">>
    /\ Len(new_entries) = 1
    /\ new_entries[1].key = "key3"

\* C2: new_entries keeps the order of input: its keys are keys of entries
\* gone through, in the same relative order, at most one per entry, and each
\* element is the result of process_entry on the entry of its key.
C2_OrderPreserved ==
    /\ \A j \in 1..Len(new_entries) :
          \E i \in 1..(idx - 1) :
             /\ input[i].key = new_entries[j].key
             /\ process_entry(input[i]).status = "return"
             /\ process_entry(input[i]).value = new_entries[j]
    /\ \A j, k \in 1..Len(new_entries) :
          j < k => PositionOf(new_entries[j].key) < PositionOf(new_entries[k].key)

\* a finished run of three entries that emitted the first and the last
C2_Witness ==
    /\ pc = "done"
    /\ Len(input) = 3
    /\ Len(new_entries) = 2
    /\ new_entries[1].key = "key1"
    /\ new_entries[2].key = "key3"
    /\ errored = <<>>

\* whether the fields pass the filter as the specification states it
PassesFilter(fields) ==
    /\ "author" \in DOMAIN fields
    /\ fields["author"] # ""
    /\ ~("keywords" \in DOMAIN fields /\ Contains(fields["keywords"], "nobib"))

\* C3: an entry whose author field is absent, or present and empty, yields
\* no result from process_entry, whatever its type and other fields are, and
\* nothing for it is in the output of the run.
C3_NoAuthorNoRecord ==
    \A i \in 1..(idx - 1) :
       ("author" \notin DOMAIN input[i].fields \/ input[i].fields["author"] = "")
       => /\ EntriesOf(input[i].key) = {}
          /\ i = idx - 1 => ret.status = "raise" \/ IsNone(ret.value)

\* C4: for an inproceedings entry that passes the filter and has a year, a
\* title and a booktitle whose hyphen-separated segments are all known,
\* process_entry raises nothing and returns an inproceedings entry of the
\* same key, year, title and author, its booktitle the full venue name and
\* the code in parentheses; the run emits it and does not list its key as
\* errored.
C4_InproceedingsResolved ==
    \A i \in 1..(idx - 1) :
       LET fields == input[i].fields
           key == input[i].key
       IN  (/\ input[i].entry_type = "inproceedings"
            /\ PassesFilter(fields)
            /\ {"year", "title", "booktitle"} \subseteq DOMAIN fields
            /\ \A n \in 1..Len(Split(fields["booktitle"], "-")) :
                  Known(Split(fields["booktitle"], "-")[n]))
           => /\ ~InErrored(key)
              /\ \E j \in EntriesOf(key) :
                    LET out == new_entries[j]
                        segments == Split(fields["booktitle"], "-")
                        names == [n \in 1..Len(segments) |-> mapping[segments[n]]]
                    IN  /\ out.entry_type = "inproceedings"
                        /\ {"year", "title", "author", "booktitle"}
                              \subseteq DOMAIN out.fields
                        /\ out.fields["year"] = PyStr(fields["year"])
                        /\ out.fields["title"] = PyStr(fields["title"])
                        /\ out.fields["author"] = PyStr(fields["author"])
                        /\ out.fields["booktitle"]
                              = PyStr(Join(names, " and ") \o " ("
                                        \o fields["booktitle"] \o ")")

\* C5: for an entry that passes the filter and has neither a doi nor a url
\* field, with eprinttype arxiv and an eprint that matches one of the two
\* patterns, the url of the result is "https://arxiv.org/abs/" and the eprint.
C5_ArxivFallback ==
    \A i \in 1..(idx - 1) :
       LET fields == input[i].fields
       IN  (/\ PassesFilter(fields)
            /\ "doi" \notin DOMAIN fields
            /\ "url" \notin DOMAIN fields
            /\ {"eprinttype", "eprint"} \subseteq DOMAIN fields
            /\ fields["eprinttype"] = "arxiv"
            /\ ArxivPattern(fields["eprint"]))
           => \A j \in EntriesOf(input[i].key) :
                 /\ "url" \in DOMAIN new_entries[j].fields
                 /\ new_entries[j].fields["url"]
                       = PyStr("https://arxiv.org/abs/" \o fields["eprint"])

\* whether the arXiv branch of the url selection applies to the fields
ArxivApplies(fields) ==
    /\ {"eprinttype", "eprint"} \subseteq DOMAIN fields
    /\ fields["eprinttype"] = "arxiv"
    /\ ArxivPattern(fields["eprint"])

\* C6: the url of a result, the first branch that applies deciding: with a
\* doi field it is "https://doi.org/" and the doi, whatever url and eprint
\* are; else with a url field it is that value with http:// turned into
\* https://, and there is no url when that value does not start with "http",
\* no later branch being tried; and there is no url when no branch gives one.
C6_UrlSelection ==
    \A j \in 1..Len(new_entries) :
       LET out == new_entries[j].fields
           fields == input[PositionOf(new_entries[j].key)].fields
       IN  /\ "doi" \in DOMAIN fields
              => /\ "url" \in DOMAIN out
                 /\ out["url"] = PyStr("https://doi.org/" \o fields["doi"])
           /\ ("doi" \notin DOMAIN fields /\ "url" \in DOMAIN fields)
              => LET https == Replace(fields["url"], "http://", "https://")
                 IN  IF StartsWith(https, "http")
                     THEN "url" \in DOMAIN out /\ out["url"] = PyStr(https)
                     ELSE "url" \notin DOMAIN out
           /\ (/\ "doi" \notin DOMAIN fields
               /\ "url" \notin DOMAIN fields
               /\ ~ArxivApplies(fields))
              => "url" \notin DOMAIN out

\* an emitted entry whose source has a doi, a url and an arXiv eprint
C6_Witness ==
    /\ pc = "done"
    /\ Len(new_entries) = 1
    /\ LET fields == input[PositionOf(new_entries[1].key)].fields
       IN  /\ {"doi", "url", "eprinttype", "eprint"} \subseteq DOMAIN fields
           /\ fields["url"] = "http://example.com/paper"
           /\ ArxivApplies(fields)
           /\ new_entries[1].fields["url"] = PyStr("https://doi.org/10.1/x")
====
